---- MODULE Spec2Model ----
(***************************************************************************)
(* The process supervisor of src/src/server-manager.ts (class              *)
(* ServerManager) as a state machine.  Every async method is a task whose  *)
(* position (pc) advances at each await; the code between two awaits is    *)
(* one atomic step, as it is on the single-threaded event loop.  Timers,   *)
(* process exits and operator calls interleave at the awaits.              *)
(***************************************************************************)
EXTENDS Integers, Sequences, FiniteSets, TLC

\* ------------------------------------------------------------------ bounds
MaxCalls == 3       \* operator calls, timer callbacks and output chunks per run
MaxProcs == 2       \* child processes spawned per run

Tasks == 1..MaxCalls
Pids == 1..MaxProcs

NullCode == 0 - 1   \* exit code null (the process was ended by a signal)

VARIABLES
    process,        \* this.process: 0 is null, else the pid of the ChildProcess
    isRunningFlag,  \* this.isRunningFlag
    startTime,      \* this.startTime: 0 is null
    restartTimer,   \* this.restartTimer: 0 is null, else the timer's id
    logStream,      \* this.logStream: "open" or "closed"
    playerCount,    \* this.playerCount
    tasks,          \* the async calls made so far
    nTasks,         \* how many
    procs,          \* the child processes spawned so far
    nProcs,         \* how many
    armedRestart,   \* the scheduled-restart timers that are pending
    armedKill,      \* the grace-period kill timers that are pending (by stop task)
    events,         \* every event emitted, in emission order
    autoRestart,    \* config server.autoRestart
    jarPresent,     \* HytaleServer.jar exists
    assetsPresent,  \* Assets.zip exists
    nOut,           \* output chunks delivered
    lastChunk,      \* the output chunk delivered last
    nErr,           \* error-stream chunks delivered
    lastErr,        \* the error-stream chunk delivered last
    errorListener,  \* a subscriber to 'error' is registered
    uncaught,       \* an exception has left a callback uncaught
    logPending,     \* the chunk records whose write to the log file is in flight
    logFile,        \* the chunk records in the log file, in file order
    nCmds,          \* sendCommand calls made
    cmdRet,         \* how the last sendCommand call returned
    adminRoleId,    \* config discord.adminRoleId: "" is unset
    interaction,    \* the chat command the Discord bot handled last
    deferred        \* the bot's handlers that await their deferReply()

logVars == <<logPending, logFile>>

hooks == <<nErr, lastErr, errorListener, uncaught>>

\* The Discord bot's configuration and state.
bot == <<adminRoleId, interaction, deferred>>

\* The supervisor, its children and its environment.
server == <<process, isRunningFlag, startTime, restartTimer, logStream, playerCount,
            tasks, nTasks, procs, nProcs, armedRestart, armedKill, events,
            autoRestart, jarPresent, assetsPresent, nOut, lastChunk, hooks, nCmds, cmdRet, logVars>>

vars == <<server, bot>>

\* The fields of the ServerManager object.
fields == <<process, isRunningFlag, startTime, restartTimer, logStream, playerCount>>

\* ------------------------------------------------------------------ records
EmptyTask ==
    [op |-> "none", origin |-> "none", reason |-> "", pc |-> "idle",
     pid |-> 0,         \* the process a stop() put its once('exit') listener on
     spawned |-> 0,     \* the process a start() spawned and put its listeners on
     ranAtCall |-> FALSE,   \* the running flag when the call was made
     delayed |-> FALSE,     \* restart() has waited its delay
     outAtCall |-> 0,       \* initialize(): the chunks delivered when it was called
     result |-> "pending", err |-> "", logOk |-> TRUE]

NoProc == [st |-> "none", stdin |-> << >>, killed |-> FALSE]

\* An emitted event: its kind and payload (text: a reason or message; code,
\* signal: a StopEvent; name, count: a PlayerEvent), and the process it is
\* about (pid, 0 if none); raw: the text of an error-stream chunk.  task is the call whose code emitted it (0 for a
\* listener of the child process).
Ev(kind, text, code, signal, pid) ==
    [kind |-> kind, text |-> text, code |-> code, signal |-> signal, pid |-> pid,
     name |-> << >>, count |-> 0, raw |-> << >>, task |-> 0]

\* The event e, emitted by the code of call t.
By(t, e) == [e EXCEPT !.task = t]

PlayerEv(kind, name, count, pid) ==
    [Ev(kind, "", 0, "", pid) EXCEPT !.name = name, !.count = count]

\* A promise settles once: a later resolve or reject changes nothing.
Settle(task, result, err) ==
    IF task.result = "pending"
    THEN [task EXCEPT !.result = result, !.err = err, !.pc = "done"]
    ELSE task

\* this.log(message): the write is issued when log is called; it fails on a
\* closed file handle.
LogOk == logStream # "closed"

\* The interaction record before any chat command has been handled.
NoInteraction == [seq |-> 0, holds |-> FALSE, outcome |-> "none", invoked |-> "none"]

\* The supervisor as constructed and initialized, with nothing called yet.
Constructed ==
    /\ process = 0
    /\ isRunningFlag = FALSE
    /\ startTime = 0
    /\ restartTimer = 0
    /\ logStream = "open"
    /\ playerCount = 0
    /\ tasks = [t \in Tasks |-> EmptyTask]
    /\ nTasks = 0
    /\ procs = [p \in Pids |-> NoProc]
    /\ nProcs = 0
    /\ armedRestart = {}
    /\ armedKill = {}
    /\ events = << >>
    /\ nOut = 0
    /\ lastChunk = << >>
    /\ nErr = 0
    /\ lastErr = << >>
    /\ uncaught = FALSE
    /\ logPending = {}
    /\ logFile = << >>
    /\ nCmds = 0
    /\ cmdRet = "none"

\* The command-line entry point: any configuration; listeners are registered
\* by OnError; no Discord bot.
Init ==
    /\ Constructed
    /\ autoRestart \in BOOLEAN
    /\ jarPresent \in BOOLEAN
    /\ assetsPresent \in BOOLEAN
    /\ errorListener = FALSE
    /\ adminRoleId = ""
    /\ interaction = NoInteraction
    /\ deferred = {}

\* ------------------------------------------------------------------ start()
\* A guard that lets start() through while a stop is pending.
StartGuardThrows_UnlessStopping == isRunningFlag /\ armedKill = {}

\* The guard of start().
StartGuardThrows == isRunningFlag

\* start() up to its first await.
EnterStart(task) ==
    IF StartGuardThrows
    THEN Settle(task, "rejected", "already running")
    ELSE [task EXCEPT !.pc = "start_jar"]

\* The run is bounded by the number of calls and callbacks it takes.
Budget == nTasks + nCmds + nOut + nErr < MaxCalls

NewTask(op, origin, reason) ==
    [EmptyTask EXCEPT !.op = op, !.origin = origin, !.reason = reason,
                      !.ranAtCall = isRunningFlag]

\* A call of an async method of the supervisor: it runs up to its first
\* await (task is the call as that leaves it).
NewCall(task) ==
    /\ ~uncaught
    /\ Budget
    /\ nTasks' = nTasks + 1
    /\ tasks' = [tasks EXCEPT ![nTasks + 1] = task]
    /\ UNCHANGED <<fields, procs, nProcs, armedRestart, armedKill, events,
                   autoRestart, jarPresent, assetsPresent, nOut, lastChunk, hooks, nCmds, cmdRet, logVars>>

CallStart ==
    /\ NewCall(EnterStart(NewTask("start", "operator", "")))
    /\ UNCHANGED bot

\* Whether fs.access(serverJar) throws.
JarMissing == ~jarPresent

\* await fs.access(serverJar)
StartAccessJar(t) ==
    /\ ~uncaught
    /\ tasks[t].pc = "start_jar"
    /\ tasks' = [tasks EXCEPT ![t] =
          IF ~JarMissing THEN [@ EXCEPT !.pc = "start_assets"]
          ELSE Settle(@, "rejected", "jar not found")]
    /\ UNCHANGED <<fields, nTasks, procs, nProcs, armedRestart, armedKill, events,
                   autoRestart, jarPresent, assetsPresent, nOut, lastChunk, hooks, nCmds, cmdRet, logVars, bot>>

\* A check of the assets file that lets a missing file pass.
AssetsMissing_Ignored == FALSE

\* Whether fs.access(assetsPath) throws.
AssetsMissing == ~assetsPresent

\* await fs.access(assetsPath), then log('Starting Hytale server...') is called
StartAccessAssets(t) ==
    /\ ~uncaught
    /\ tasks[t].pc = "start_assets"
    /\ tasks' = [tasks EXCEPT ![t] =
          IF ~AssetsMissing THEN [@ EXCEPT !.pc = "start_log", !.logOk = LogOk]
          ELSE Settle(@, "rejected", "assets not found")]
    /\ UNCHANGED <<fields, nTasks, procs, nProcs, armedRestart, armedKill, events,
                   autoRestart, jarPresent, assetsPresent, nOut, lastChunk, hooks, nCmds, cmdRet, logVars, bot>>

\* What spawn() can report: the child runs; or it could not be executed
\* (ENOENT, EACCES), which the child reports by its 'error' event on the next
\* tick, before anything else runs, and without an 'exit' event; or no
\* process could be created at all (EMFILE, ENFILE), which leaves the child
\* object without streams and reports the same 'error' event.
SpawnOutcomes == {"ok", "error", "nostreams"}

\* EventEmitter: emit('error', ...) throws when no listener is registered
\* for 'error'.
ErrorThrows == ~errorListener

\* The events of the block after the awaited log in start(), and of the
\* 'error' handler, whose emit('error', error) delivers the event or throws.
StartEvents(t, outcome, p) ==
    <<By(t, Ev("starting", "", 0, "", 0))>>
    \o (IF outcome = "nostreams" THEN << >> ELSE <<By(t, Ev("started", "", 0, "", p))>>)
    \o (IF outcome = "error" /\ ~ErrorThrows
        THEN <<Ev("error", "spawn", 0, "", p)>> ELSE << >>)

\* The promise of start(): the reject() of the stream test, which returns
\* from the executor; else resolve() at the end of the executor, then the
\* error handler's reject(error).
StartSettle(task, outcome) ==
    IF outcome = "nostreams" THEN Settle(task, "rejected", "streams")
    ELSE IF outcome = "error"
    THEN Settle(Settle(task, "resolved", ""), "rejected", "spawn")
    ELSE Settle(task, "resolved", "")

\* A start() that leaves the flag for the ready phrase to set.
StartFlag_WaitsForReady(outcome) == FALSE

\* The running flag after the executor (and the error handler, if it runs);
\* the executor that returns at the stream test does not assign it.
StartFlag(outcome) ==
    IF outcome = "nostreams" THEN isRunningFlag
    ELSE IF outcome = "error" THEN FALSE ELSE TRUE

\* Date.now() when the executor runs: a logical clock, the ordinal of the spawn.
Now == nProcs + 1

\* A start() that schedules the restart whatever the configuration says.
ArmsRestartTimer_Always == TRUE

\* Whether the executor arms the scheduled-restart timer: config
\* server.autoRestart.
ArmsRestartTimer == autoRestart

StartSpawn(t, outcome) ==
    /\ ~uncaught
    /\ tasks[t].pc = "start_log"
    /\ IF ~tasks[t].logOk
       THEN /\ tasks' = [tasks EXCEPT ![t] = Settle(@, "rejected", "EBADF")]
            /\ outcome = "ok"
            /\ UNCHANGED <<fields, procs, nProcs, armedRestart, events, uncaught>>
       ELSE /\ nProcs < MaxProcs
            /\ LET p == nProcs + 1 IN
               /\ nProcs' = p
               /\ procs' = [procs EXCEPT ![p] =
                     [NoProc EXCEPT !.st = IF outcome = "ok" THEN "alive" ELSE "failed"]]
               /\ process' = p
               /\ isRunningFlag' = StartFlag(outcome)
               /\ startTime' = IF outcome = "nostreams" THEN startTime ELSE Now
               /\ events' = events \o StartEvents(t, outcome, p)
               /\ IF outcome # "nostreams" /\ ArmsRestartTimer
                  THEN restartTimer' = p /\ armedRestart' = armedRestart \cup {p}
                  ELSE UNCHANGED <<restartTimer, armedRestart>>
               /\ tasks' = [tasks EXCEPT ![t] = StartSettle([@ EXCEPT !.spawned = IF outcome = "nostreams" THEN 0 ELSE p],
                                             outcome)]
               /\ uncaught' = (outcome = "nostreams" \/ (outcome = "error" /\ ErrorThrows))
            /\ UNCHANGED <<logStream, playerCount>>
    /\ UNCHANGED <<nTasks, armedKill, autoRestart, jarPresent, assetsPresent,
                   nOut, lastChunk, nErr, lastErr, errorListener, nCmds, cmdRet, logVars, bot>>

\* ------------------------------------------------------------------ initialize()
\* initialize() called again: it awaits config.load() and ensureDirectories()
\* (the configuration file and the directories are as before), then
\* setupLogging().
CallInitialize ==
    /\ ~uncaught
    /\ Budget
    /\ nTasks' = nTasks + 1
    /\ tasks' = [tasks EXCEPT ![nTasks + 1] =
                    [NewTask("initialize", "operator", "")
                        EXCEPT !.pc = "init_open", !.outAtCall = nOut]]
    /\ UNCHANGED <<fields, procs, nProcs, armedRestart, armedKill, events,
                   autoRestart, jarPresent, assetsPresent, nOut, lastChunk, hooks, nCmds, cmdRet, logVars, bot>>

\* setupLogging(): this.logStream = await fs.open(logFile, 'a'), a new handle
\* on a new, empty file (its name holds Date.now()).
InitializeOpen(t) ==
    /\ ~uncaught
    /\ tasks[t].pc = "init_open"
    /\ logStream' = "open"
    /\ logPending' = {}
    /\ logFile' = << >>
    /\ tasks' = [tasks EXCEPT ![t] = Settle(@, "resolved", "")]
    /\ UNCHANGED <<process, isRunningFlag, startTime, restartTimer, playerCount,
                   nTasks, procs, nProcs, armedRestart, armedKill, events,
                   autoRestart, jarPresent, assetsPresent, nOut, lastChunk, hooks,
                   nCmds, cmdRet, bot>>

\* ------------------------------------------------------------------ sendCommand()
\* The guard of sendCommand(): stdin exists on every spawned ChildProcess
\* (stdio is 'pipe').
SendCommandThrows == ~isRunningFlag \/ process = 0 \/ procs[process].st = "none"

\* A command written without its line terminator.
StdinLine_NoTerminator(command) == <<command>>

\* `${command}\n`: the command and its line terminator.
StdinLine(command) == <<command, "\n">>

\* this.process.stdin.write(`${command}\n`)
WriteStdin(command) == [procs EXCEPT ![process].stdin = Append(@, StdinLine(command))]

CommandTexts == {"say hi"}

\* sendCommand(text) called from outside the class.
SendCommandCall(text) ==
    /\ ~uncaught
    /\ Budget
    /\ nCmds' = nCmds + 1
    /\ IF SendCommandThrows
       THEN cmdRet' = "not running" /\ UNCHANGED procs
       ELSE cmdRet' = "ok" /\ procs' = WriteStdin(text)
    /\ UNCHANGED <<fields, tasks, nTasks, nProcs, armedRestart, armedKill, events,
                   autoRestart, jarPresent, assetsPresent, nOut, lastChunk, hooks, logVars>>

CallSendCommand(text) ==
    /\ SendCommandCall(text)
    /\ UNCHANGED bot

\* ------------------------------------------------------------------ stop()
\* A guard that tests the handle and not the running flag.
StopGuardThrows_HandleOnly == process = 0

\* The guard of stop().
StopGuardThrows == ~isRunningFlag \/ process = 0

\* stop() up to its first await: the guard, then log(`Stopping server: ...`).
EnterStop(task) ==
    IF StopGuardThrows
    THEN Settle(task, "rejected", "not running")
    ELSE [task EXCEPT !.pc = "stop_log", !.logOk = LogOk]

CallStop ==
    /\ NewCall(EnterStop(NewTask("stop", "operator", "Manual stop")))
    /\ UNCHANGED bot

\* stop() after the awaited log: emit 'stopping', then the promise executor:
\* sendCommand('stop'), the kill timer, once('exit').  A throw of sendCommand
\* inside the executor rejects the promise before the timer is armed.
StopLog(t) ==
    /\ ~uncaught
    /\ tasks[t].pc = "stop_log"
    /\ IF ~tasks[t].logOk
       THEN /\ tasks' = [tasks EXCEPT ![t] = Settle(@, "rejected", "EBADF")]
            /\ UNCHANGED <<events, procs, armedKill>>
       ELSE /\ events' = Append(events, By(t, Ev("stopping", tasks[t].reason, 0, "", 0)))
            /\ IF SendCommandThrows
               THEN /\ tasks' = [tasks EXCEPT ![t] = Settle(@, "rejected", "not running")]
                    /\ UNCHANGED <<procs, armedKill>>
               ELSE /\ procs' = WriteStdin("stop")
                    /\ armedKill' = armedKill \cup {t}
                    /\ tasks' = [tasks EXCEPT ![t] =
                                    [@ EXCEPT !.pc = "stop_wait", !.pid = process]]
    /\ UNCHANGED <<fields, nTasks, nProcs, armedRestart,
                   autoRestart, jarPresent, assetsPresent, nOut, lastChunk, hooks, nCmds, cmdRet, logVars, bot>>

\* The kill timer's callback: this.process.kill('SIGKILL') on the current
\* handle; a signal to a process that has gone does nothing.
KillTarget == process

KillTimerFire(t) ==
    /\ ~uncaught
    /\ t \in armedKill
    /\ armedKill' = armedKill \ {t}
    /\ procs' = IF KillTarget # 0 /\ procs[KillTarget].st = "alive"
                THEN [procs EXCEPT ![KillTarget].killed = TRUE]
                ELSE procs
    /\ UNCHANGED <<fields, tasks, nTasks, nProcs, armedRestart, events,
                   autoRestart, jarPresent, assetsPresent, nOut, lastChunk, hooks, nCmds, cmdRet, logVars, bot>>

\* ------------------------------------------------------------------ process exit
\* How a child can exit: ended by the SIGKILL it was sent (code null), or by
\* itself with code 0 or code 1.
\* A child ended by SIGKILL that reports an exit code.
ExitKinds_KillCode(p) ==
    IF procs[p].killed
    THEN {<<1, "SIGKILL">>}
    ELSE {<<0, "null">>, <<1, "null">>}

ExitKinds(p) ==
    IF procs[p].killed
    THEN {<<NullCode, "SIGKILL">>}
    ELSE {<<0, "null">>, <<1, "null">>}

\* A test that takes a null exit code for a crash.
IsCrash_NonZero(code) == code # 0

\* Whether the exit handler emits 'crashed'.
IsCrash(code) == code # 0 /\ code # NullCode

\* An exit handler that raises no 'crashed' while a stop() waits on the process.
ExitEvents_QuietOnStop(p, code, signal) ==
    <<Ev("stopped", "", code, signal, p)>>
    \o (IF IsCrash(code) /\ ~\E t \in Tasks : tasks[t].pc = "stop_wait" /\ tasks[t].pid = p
        THEN <<Ev("crashed", "", code, signal, p)>> ELSE << >>)

\* The events of the exit handler registered by start().
ExitEvents(p, code, signal) ==
    <<Ev("stopped", "", code, signal, p)>>
    \o (IF IsCrash(code) THEN <<Ev("crashed", "", code, signal, p)>> ELSE << >>)

\* Listeners that run on the exit of any process.
StopWaiters_AnyProcess(p) == {t \in Tasks : tasks[t].pc = "stop_wait"}

\* The stop() calls whose once('exit') listener is on process p.
StopWaiters(p) == {t \in Tasks : tasks[t].pc = "stop_wait" /\ tasks[t].pid = p}

\* A restart() that calls start() as soon as stop() has resolved.
AfterStop_NoDelay(task) ==
    CASE task.op = "stop"    -> Settle(task, "resolved", "")
      [] task.op = "restart" -> [task EXCEPT !.pc = "start_jar"]
      [] task.op = "cleanup" -> [task EXCEPT !.pc = "cl_close"]

\* What follows `await this.stop(...)` in the caller, once stop's promise
\* has resolved: stop() itself is done; restart() sets its 5 s delay;
\* cleanup() closes the log handle.
AfterStop(task) ==
    CASE task.op = "stop"    -> Settle(task, "resolved", "")
      [] task.op = "restart" -> [task EXCEPT !.pc = "r_delay"]
      [] task.op = "cleanup" -> [task EXCEPT !.pc = "cl_close"]

\* The scheduled-restart timers left pending by clearTimeout(this.restartTimer).
ClearRestartTimer == IF restartTimer # 0 THEN armedRestart \ {restartTimer} ELSE armedRestart

Exit(p, code, signal) ==
    /\ ~uncaught
    /\ procs[p].st = "alive"
    /\ <<code, signal>> \in ExitKinds(p)
    /\ procs' = [procs EXCEPT ![p].st = "exited"]
    /\ isRunningFlag' = FALSE
    /\ startTime' = 0
    /\ events' = events \o ExitEvents(p, code, signal)
    /\ armedRestart' = ClearRestartTimer
    /\ restartTimer' = 0
    /\ armedKill' = armedKill \ StopWaiters(p)
    /\ tasks' = [t \in Tasks |-> IF t \in StopWaiters(p) THEN AfterStop(tasks[t]) ELSE tasks[t]]
    /\ logStream' = IF \E t \in StopWaiters(p) : tasks[t].op = "cleanup"
                    THEN "closed" ELSE logStream
    /\ UNCHANGED <<process, playerCount, nTasks, nProcs,
                   autoRestart, jarPresent, assetsPresent, nOut, lastChunk, hooks, nCmds, cmdRet, logVars, bot>>

\* ------------------------------------------------------------------ restart()
\* restart() up to its first await: log(`Restarting server: ...`).
EnterRestart(task) == [task EXCEPT !.pc = "r_log", !.logOk = LogOk]

CallRestart ==
    /\ NewCall(EnterRestart(NewTask("restart", "operator", "Manual restart")))
    /\ UNCHANGED bot

\* The scheduled-restart timer's callback: this.restart('Scheduled restart').
\* The field this.restartTimer keeps the fired timer's id.
RestartTimerFire(p) ==
    /\ ~uncaught
    /\ p \in armedRestart
    /\ Budget
    /\ armedRestart' = armedRestart \ {p}
    /\ nTasks' = nTasks + 1
    /\ tasks' = [tasks EXCEPT ![nTasks + 1] =
                    EnterRestart(NewTask("restart", "timer", "Scheduled restart"))]
    /\ UNCHANGED <<fields, procs, nProcs, armedKill, events,
                   autoRestart, jarPresent, assetsPresent, nOut, lastChunk, hooks, nCmds, cmdRet, logVars, bot>>

\* A restart() that calls stop() whether or not the supervisor is running.
RestartBranch_AlwaysStop(task) == EnterStop(task)

\* restart() after the awaited log: emit 'restarting', then stop() if
\* running, else start().
RestartBranch(task) == IF isRunningFlag THEN EnterStop(task) ELSE EnterStart(task)

RestartLog(t) ==
    /\ ~uncaught
    /\ tasks[t].pc = "r_log"
    /\ IF ~tasks[t].logOk
       THEN /\ tasks' = [tasks EXCEPT ![t] = Settle(@, "rejected", "EBADF")]
            /\ UNCHANGED events
       ELSE /\ events' = Append(events, By(t, Ev("restarting", tasks[t].reason, 0, "", 0)))
            /\ tasks' = [tasks EXCEPT ![t] = RestartBranch(@)]
    /\ UNCHANGED <<fields, nTasks, procs, nProcs, armedRestart, armedKill,
                   autoRestart, jarPresent, assetsPresent, nOut, lastChunk, hooks, nCmds, cmdRet, logVars, bot>>

\* The 5 s delay of restart() has elapsed: start() is called.
RestartDelayFire(t) ==
    /\ ~uncaught
    /\ tasks[t].pc = "r_delay"
    /\ tasks' = [tasks EXCEPT ![t] = EnterStart([@ EXCEPT !.delayed = TRUE])]
    /\ UNCHANGED <<fields, nTasks, procs, nProcs, armedRestart, armedKill, events,
                   autoRestart, jarPresent, assetsPresent, nOut, lastChunk, hooks, nCmds, cmdRet, logVars, bot>>

\* ------------------------------------------------------------------ cleanup()
\* cleanup() up to its first await: stop('Cleanup') if running, else
\* this.logStream.close().
CallCleanup ==
    /\ ~uncaught
    /\ Budget
    /\ nTasks' = nTasks + 1
    /\ LET task == NewTask("cleanup", "operator", "Cleanup") IN
       IF isRunningFlag
       THEN /\ tasks' = [tasks EXCEPT ![nTasks + 1] = EnterStop(task)]
            /\ UNCHANGED logStream
       ELSE /\ tasks' = [tasks EXCEPT ![nTasks + 1] = [task EXCEPT !.pc = "cl_close"]]
            /\ logStream' = "closed"
    /\ UNCHANGED <<process, isRunningFlag, startTime, restartTimer, playerCount,
                   procs, nProcs, armedRestart, armedKill, events,
                   autoRestart, jarPresent, assetsPresent, nOut, lastChunk, hooks, nCmds, cmdRet, logVars, bot>>

\* The cleanup() calls that have called this.logStream.close().
CloseCallers ==
    {t \in Tasks : tasks[t].op = "cleanup"
                      /\ (tasks[t].pc = "cl_close" \/ tasks[t].result = "resolved")}

\* await this.logStream.close() completes
CleanupClose(t) ==
    /\ ~uncaught
    /\ tasks[t].pc = "cl_close"
    /\ tasks' = [tasks EXCEPT ![t] = Settle(@, "resolved", "")]
    /\ UNCHANGED <<fields, nTasks, procs, nProcs, armedRestart, armedKill, events,
                   autoRestart, jarPresent, assetsPresent, nOut, lastChunk, hooks, nCmds, cmdRet, logVars, bot>>

\* ------------------------------------------------------------------ getStatus()
\* What Date.now() can read in the current state, on the logical clock of
\* Now: the time of the latest spawn, or a later time.
ClockReadings == {n \in {nProcs, nProcs + 1} : n >= 1}

\* getStatus() called when the clock reads now: a read of the fields.
GetStatus(now) ==
    [isRunning |-> isRunningFlag,
     uptime |-> IF startTime # 0 THEN now - startTime ELSE 0,
     playerCount |-> playerCount]

\* ------------------------------------------------------------------ log()
\* The log() calls of the stream listeners: a record is the ordinal of the
\* chunk it logs.  The listeners do not await log(), so several
\* logStream.write() calls can be in flight on the handle; the handle is
\* opened with 'a', so each write appends its record whole, and the runtime
\* does not order writes in flight on one handle.
LogCall == IF LogOk THEN logPending \cup {nOut + nErr + 1} ELSE logPending

\* One logStream.write() in flight completes.
LogWrite(r) ==
    /\ ~uncaught
    /\ r \in logPending
    /\ logPending' = logPending \ {r}
    /\ logFile' = Append(logFile, r)
    /\ UNCHANGED <<fields, tasks, nTasks, procs, nProcs, armedRestart, armedKill, events,
                   autoRestart, jarPresent, assetsPresent, nOut, lastChunk, hooks,
                   nCmds, cmdRet, bot>>

\* ------------------------------------------------------------------ output parsing
\* A string is the sequence of its characters.
LowerAlphabet ==
    <<"a", "b", "c", "d", "e", "f", "g", "h", "i", "j", "k", "l", "m",
      "n", "o", "p", "q", "r", "s", "t", "u", "v", "w", "x", "y", "z">>
UpperAlphabet ==
    <<"A", "B", "C", "D", "E", "F", "G", "H", "I", "J", "K", "L", "M",
      "N", "O", "P", "Q", "R", "S", "T", "U", "V", "W", "X", "Y", "Z">>
Digits == {"0", "1", "2", "3", "4", "5", "6", "7", "8", "9"}

\* String.prototype.toLowerCase
ToLowerChar(c) ==
    IF \E i \in 1..26 : UpperAlphabet[i] = c
    THEN LowerAlphabet[CHOOSE i \in 1..26 : UpperAlphabet[i] = c]
    ELSE c
ToLowerCase(str) == [i \in 1..Len(str) |-> ToLowerChar(str[i])]

\* String.prototype.includes
Includes(str, sub) ==
    \E i \in 1..(Len(str) - Len(sub) + 1) : SubSeq(str, i, i + Len(sub) - 1) = sub

\* The regular expression classes \w and \s.
IsWordChar(c) ==
    \/ \E i \in 1..26 : LowerAlphabet[i] = ToLowerChar(c)
    \/ c \in Digits
    \/ c = "_"
IsSpace(c) == c \in {" ", "\n", "\t", "\r"}

JoinedTheGame == <<"j", "o", "i", "n", "e", "d", " ", "t", "h", "e", " ", "g", "a", "m", "e">>
PlayerConnected == <<"p", "l", "a", "y", "e", "r", " ", "c", "o", "n", "n", "e", "c", "t", "e", "d">>
Connected == <<"c", "o", "n", "n", "e", "c", "t", "e", "d">>
LeftTheGame == <<"l", "e", "f", "t", " ", "t", "h", "e", " ", "g", "a", "m", "e">>
PlayerDisconnected == <<"p", "l", "a", "y", "e", "r", " ", "d", "i", "s", "c", "o", "n", "n", "e", "c", "t", "e", "d">>
Disconnected == <<"d", "i", "s", "c", "o", "n", "n", "e", "c", "t", "e", "d">>
DoneText == <<"d", "o", "n", "e">>
ServerStarted == <<"s", "e", "r", "v", "e", "r", " ", "s", "t", "a", "r", "t", "e", "d">>

\* Whether literal lit, letter case ignored, is in str at position k.
LiteralAt(str, k, lit) ==
    /\ k + Len(lit) - 1 <= Len(str)
    /\ ToLowerCase(SubSeq(str, k, k + Len(lit) - 1)) = lit

\* The end of the longest run of characters of a class that starts at i
\* (i - 1 if str[i] is not of the class).
RECURSIVE RunEnd(_, _, _)
RunEnd(str, i, word) ==
    IF i <= Len(str) /\ (IF word THEN IsWordChar(str[i]) ELSE IsSpace(str[i]))
    THEN RunEnd(str, i + 1, word)
    ELSE i - 1

\* Whether /(\w+)\s+(?:lit1|lit2)/i matches str from position i: \w+ and \s+
\* are greedy, and giving back characters cannot help, since the literals
\* start with a letter.
MatchesAt(str, i, lit1, lit2) ==
    LET j == RunEnd(str, i, TRUE)
        k == RunEnd(str, j + 1, FALSE)
    IN /\ j >= i
       /\ k >= j + 1
       /\ (LiteralAt(str, k + 1, lit1) \/ LiteralAt(str, k + 1, lit2))

\* String.prototype.match for /(\w+)\s+(?:lit1|lit2)/i: the capture group of
\* the leftmost match, << >> when there is no match (a capture is never empty).
MatchName(str, lit1, lit2) ==
    LET starts == {i \in 1..Len(str) : MatchesAt(str, i, lit1, lit2)}
    IN IF starts = {} THEN << >>
       ELSE LET i == CHOOSE x \in starts : \A y \in starts : x <= y
            IN SubSeq(str, i, RunEnd(str, i, TRUE))

JoinName(message) ==
    IF Includes(ToLowerCase(message), JoinedTheGame)
       \/ Includes(ToLowerCase(message), PlayerConnected)
    THEN MatchName(message, JoinedTheGame, Connected)
    ELSE << >>

LeaveName(message) ==
    IF Includes(ToLowerCase(message), LeftTheGame)
       \/ Includes(ToLowerCase(message), PlayerDisconnected)
    THEN MatchName(message, LeftTheGame, Disconnected)
    ELSE << >>

IsReady(message) ==
    Includes(ToLowerCase(message), DoneText) \/ Includes(ToLowerCase(message), ServerStarted)

\* The output chunks a child writes.
MsgJoin == <<"S", "t", "e", "v", "e", " ", "j", "o", "i", "n", "e", "d", " ", "t", "h", "e", " ", "g", "a", "m", "e", "\n">>
MsgLeave == <<"S", "t", "e", "v", "e", " ", "l", "e", "f", "t", " ", "t", "h", "e", " ", "g", "a", "m", "e", "\n">>
MsgDone == <<"D", "o", "n", "e", "\n">>
MsgAlexJoin == <<"A", "l", "e", "x", " ", "j", "o", "i", "n", "e", "d", " ", "t", "h", "e", " ", "g", "a", "m", "e", "\n">>
\* Two lines that the pipe delivers in one chunk.
MsgTwoJoin == MsgJoin \o MsgAlexJoin
MsgTwoDone == MsgDone \o MsgDone
Messages == {MsgJoin, MsgLeave, MsgDone, MsgTwoJoin, MsgTwoDone}

\* What parseServerOutput finds in each chunk (computed once per chunk).
Parsed ==
    [m \in Messages |-> [join |-> JoinName(m), leave |-> LeaveName(m), ready |-> IsReady(m)]]

Max(a, b) == IF a >= b THEN a ELSE b

\* parseServerOutput(message): the player count after the join block, after
\* the leave block, and the events emitted.
CountAfterJoin(message, count) ==
    IF Parsed[message].join # << >> THEN count + 1 ELSE count

\* A leave block that decrements without the clamp.
CountAfterLeave_Unclamped(message, count) ==
    IF Parsed[message].leave # << >> THEN count - 1 ELSE count

CountAfterLeave(message, count) ==
    IF Parsed[message].leave # << >> THEN Max(0, count - 1) ELSE count

\* A parse that sets the count to 0 at the ready phrase.
ParseCount_ReadyResets(message, count) ==
    IF Parsed[message].ready THEN 0 ELSE CountAfterLeave(message, CountAfterJoin(message, count))

ParseCount(message, count) == CountAfterLeave(message, CountAfterJoin(message, count))

ParseEvents(message, count, p) ==
    (IF Parsed[message].join # << >>
     THEN <<PlayerEv("playerJoin", Parsed[message].join, CountAfterJoin(message, count), p)>>
     ELSE << >>)
    \o (IF Parsed[message].leave # << >>
        THEN <<PlayerEv("playerLeave", Parsed[message].leave, ParseCount(message, count), p)>>
        ELSE << >>)
    \o (IF Parsed[message].ready THEN <<Ev("ready", "", 0, "", p)>> ELSE << >>)

\* The 'data' listener on the child's stdout.  The pipe outlives the 'exit'
\* event: a chunk the child wrote before it ended can be delivered after it.
StdoutData(p, message) ==
    /\ ~uncaught
    /\ procs[p].st \in {"alive", "exited"}
    /\ Budget
    /\ nOut' = nOut + 1
    /\ lastChunk' = message
    /\ logPending' = LogCall
    /\ playerCount' = ParseCount(message, playerCount)
    /\ events' = events \o ParseEvents(message, playerCount, p)
    /\ UNCHANGED <<process, isRunningFlag, startTime, restartTimer, logStream,
                   tasks, nTasks, procs, nProcs, armedRestart, armedKill,
                   autoRestart, jarPresent, assetsPresent, hooks, nCmds, cmdRet, logFile, bot>>

\* ------------------------------------------------------------------ error stream
\* serverManager.on('error', listener), as the entry points call it.
OnError ==
    /\ ~uncaught
    /\ ~errorListener
    /\ errorListener' = TRUE
    /\ UNCHANGED <<fields, tasks, nTasks, procs, nProcs, armedRestart, armedKill, events,
                   autoRestart, jarPresent, assetsPresent, nOut, lastChunk,
                   nErr, lastErr, uncaught, nCmds, cmdRet, logVars, bot>>

WarningText == <<"w", "a", "r", "n", "i", "n", "g">>

\* The chunks a child writes to its error stream.
ErrWarn == <<"W", "a", "r", "n", "i", "n", "g", ":", " ", "l", "a", "g", "\n">>
ErrFatal == <<"b", "o", "o", "m", "\n">>
\* Two lines that the pipe delivers in one chunk.
ErrWarnFatal == ErrWarn \o ErrFatal
ErrMessages == {ErrWarn, ErrFatal, ErrWarnFatal}

\* message.toLowerCase().includes('warning'), computed once per chunk.
IsWarning == [m \in ErrMessages |-> Includes(ToLowerCase(m), WarningText)]

ErrorEv(message, p) == [Ev("error", "", 0, "", p) EXCEPT !.raw = message]

\* The 'data' listener on the child's stderr.
StderrData(p, message) ==
    /\ ~uncaught
    /\ procs[p].st \in {"alive", "exited"}
    /\ Budget
    /\ nErr' = nErr + 1
    /\ lastErr' = message
    /\ logPending' = LogCall
    /\ IF IsWarning[message]
       THEN UNCHANGED <<events, uncaught>>
       ELSE IF ErrorThrows
            THEN uncaught' = TRUE /\ UNCHANGED events
            ELSE events' = Append(events, ErrorEv(message, p)) /\ UNCHANGED uncaught
    /\ UNCHANGED <<fields, tasks, nTasks, procs, nProcs, armedRestart, armedKill,
                   autoRestart, jarPresent, assetsPresent, nOut, lastChunk,
                   errorListener, nCmds, cmdRet, logFile, bot>>

ExitCodes == {0, 1, NullCode}
Signals == {"null", "SIGKILL"}

\* ------------------------------------------------------------------ Discord bot
\* The role id that config discord.adminRoleId names when it is set.
AdminRole == "admin"

\* interaction.member of a chat command: its roles are absent ("none"), the
\* array of role ids of a member the API sent ("array"), the role manager of
\* a cached guild member ("manager"), or a Collection keyed by role id; ids
\* are the roles the member holds.
Members ==
    {[roles |-> "none", ids |-> {}]}
    \cup [roles : {"array", "manager", "collection"}, ids : SUBSET {AdminRole}]

\* The chat commands; "other" is a name the bot has no handler for.
Commands == {"server-on", "server-off", "server-restart", "server-status",
             "server-command", "server-players", "server-info", "other"}

\* The 'command' option of /server-command; "" is an absent option.
CommandOptions == CommandTexts \cup {""}

\* adminRoleId && !interaction.member?.roles
Unverifiable(m) == adminRoleId # "" /\ m.roles = "none"

\* A role test that takes any member whose roles are present as an admin.
HasRole_AnyMember(m) == TRUE

\* roles instanceof Collection ? roles.has(adminRoleId) : false
HasRole(m) == IF m.roles = "collection" THEN adminRoleId \in m.ids ELSE FALSE

\* adminRoleId && interaction.member?.roles, and !hasRole
Refused(m) == adminRoleId # "" /\ m.roles # "none" /\ ~HasRole(m)

\* Whether the member holds the admin role.
HoldsRole(m) == AdminRole \in m.ids

\* The interaction record of a handled command: its ordinal, whether its
\* member holds the admin role, how handleCommand ended, and what the handler
\* did with the supervisor.
Handled(cmd, m, outcome, invoked) ==
    [seq |-> interaction.seq + 1, holds |-> HoldsRole(m),
     outcome |-> outcome, invoked |-> invoked]

\* A handler that replies without a call to the supervisor.
ReplyOnly(cmd, m, outcome) ==
    /\ interaction' = Handled(cmd, m, outcome, "none")
    /\ UNCHANGED <<server, deferred>>

\* A handler that awaits interaction.deferReply() before its call.
Defer(cmd, m, call) ==
    /\ interaction' = Handled(cmd, m, "dispatched", "deferred")
    /\ deferred' = deferred \cup {[seq |-> interaction.seq + 1, call |-> call, holds |-> HoldsRole(m)]}
    /\ UNCHANGED server

\* The switch of handleCommand and the handlers up to their first await or
\* their reply.  The handlers read serverManager.isRunning, and
\* handleServerStatus, handleServerPlayers and handleServerInfo call
\* getStatus(), which changes nothing.
Dispatch(cmd, m, text) ==
    CASE cmd = "server-on" ->
           IF isRunningFlag THEN ReplyOnly(cmd, m, "dispatched") ELSE Defer(cmd, m, "start")
      [] cmd = "server-off" ->
           IF ~isRunningFlag THEN ReplyOnly(cmd, m, "dispatched") ELSE Defer(cmd, m, "stop")
      [] cmd = "server-restart" -> Defer(cmd, m, "restart")
      [] cmd \in {"server-status", "server-players", "server-info"} ->
           /\ interaction' = Handled(cmd, m, "dispatched", "getStatus")
           /\ UNCHANGED <<server, deferred>>
      [] cmd = "server-command" ->
           IF ~isRunningFlag \/ text = ""
           THEN ReplyOnly(cmd, m, "dispatched")
           ELSE /\ interaction' = Handled(cmd, m, "dispatched", "sendCommand")
                /\ SendCommandCall(text)
                /\ UNCHANGED deferred
      [] OTHER -> ReplyOnly(cmd, m, "dispatched")

\* handleCommand(interaction) for a chat command cmd of member m.
HandleCommand(cmd, m, text) ==
    /\ ~uncaught
    /\ interaction.seq < MaxCalls
    /\ IF Unverifiable(m) THEN ReplyOnly(cmd, m, "unverified")
       ELSE IF Refused(m) THEN ReplyOnly(cmd, m, "refused")
       ELSE Dispatch(cmd, m, text)
    /\ UNCHANGED adminRoleId

\* The reasons the handlers pass when the command has no 'reason' option.
DiscordReason(call) ==
    CASE call = "stop" -> "Stopped via Discord"
      [] call = "restart" -> "Restarted via Discord"
      [] OTHER -> ""

\* A handler resumes after its deferReply() and calls start(), stop(reason)
\* or restart(reason); what it awaits and replies after that does not touch
\* the supervisor.
DeferReplied(d) ==
    /\ d \in deferred
    /\ deferred' = deferred \ {d}
    /\ LET task == NewTask(d.call, "discord", DiscordReason(d.call)) IN
       NewCall(CASE d.call = "start" -> EnterStart(task)
                 [] d.call = "stop" -> EnterStop(task)
                 [] OTHER -> EnterRestart(task))
    /\ UNCHANGED <<adminRoleId, interaction>>

\* The Discord bot as the supervisor's only caller: an installed server
\* without scheduled restarts, the bot's 'error' listener registered, and
\* the admin role configured or not.
BotInit ==
    /\ Constructed
    /\ autoRestart = FALSE
    /\ jarPresent = TRUE
    /\ assetsPresent = TRUE
    /\ errorListener = TRUE
    /\ adminRoleId \in {"", AdminRole}
    /\ interaction = NoInteraction
    /\ deferred = {}

BotNext ==
    \/ \E c \in Commands, m \in Members, x \in CommandOptions : HandleCommand(c, m, x)
    \/ \E d \in deferred : DeferReplied(d)
    \/ \E t \in Tasks : StartAccessJar(t)
    \/ \E t \in Tasks : StartAccessAssets(t)
    \/ \E t \in Tasks, o \in SpawnOutcomes : StartSpawn(t, o)
    \/ \E t \in Tasks : StopLog(t)
    \/ \E t \in Tasks : KillTimerFire(t)
    \/ \E p \in Pids, c \in ExitCodes, s \in Signals : Exit(p, c, s)
    \/ \E t \in Tasks : RestartLog(t)
    \/ \E t \in Tasks : RestartDelayFire(t)

BotSpec == BotInit /\ [][BotNext]_vars

\* ------------------------------------------------------------------ specification
Next ==
    \/ CallInitialize
    \/ \E t \in Tasks : InitializeOpen(t)
    \/ CallStart
    \/ \E t \in Tasks : StartAccessJar(t)
    \/ \E t \in Tasks : StartAccessAssets(t)
    \/ \E t \in Tasks, o \in SpawnOutcomes : StartSpawn(t, o)
    \/ \E c \in CommandTexts : CallSendCommand(c)
    \/ CallStop
    \/ \E t \in Tasks : StopLog(t)
    \/ \E t \in Tasks : KillTimerFire(t)
    \/ \E p \in Pids, c \in ExitCodes, s \in Signals : Exit(p, c, s)
    \/ CallRestart
    \/ \E p \in Pids : RestartTimerFire(p)
    \/ \E t \in Tasks : RestartLog(t)
    \/ \E t \in Tasks : RestartDelayFire(t)
    \/ CallCleanup
    \/ \E t \in Tasks : CleanupClose(t)
    \/ \E p \in Pids, m \in Messages : StdoutData(p, m)
    \/ \E r \in 1..MaxCalls : LogWrite(r)
    \/ OnError
    \/ \E p \in Pids, m \in ErrMessages : StderrData(p, m)

Spec == Init /\ [][Next]_vars

\* ------------------------------------------------------------------ claims
LiveProcs == {p \in Pids : procs[p].st = "alive"}

\* The task a step has just created, if any.
Called(op, origin) ==
    /\ nTasks' = nTasks + 1
    /\ tasks'[nTasks'].op = op
    /\ tasks'[nTasks'].origin = origin

Rejected(task, err) == task.result = "rejected" /\ task.err = err

Kinds(evs) == [i \in 1..Len(evs) |-> evs[i].kind]

\* C1: at most one child process is alive at any time.
C1_AtMostOneLive == Cardinality(LiveProcs) <= 1

\* C2: a call to start() while the supervisor is running (a stop may be
\* pending) is rejected with 'already running' and changes nothing: no
\* process, no event, and flag, start time, handle, timers and player count
\* as before.  start() is called by the operator and by restart() after its
\* delay.
C2_StartWhileRunning ==
    [][isRunningFlag =>
        /\ Called("start", "operator") =>
              /\ Rejected(tasks'[nTasks'], "already running")
              /\ UNCHANGED <<fields, procs, nProcs, armedRestart, armedKill, events>>
        /\ \A t \in Tasks :
              tasks[t].pc = "r_delay" /\ tasks'[t] # tasks[t] =>
                 /\ Rejected(tasks'[t], "already running")
                 /\ UNCHANGED <<fields, procs, nProcs, armedRestart, armedKill, events>>
      ]_vars

C2_Witness ==
    \E t, u \in Tasks :
        /\ u < t
        /\ tasks[u].op = "stop" /\ tasks[u].pc = "stop_wait"
        /\ tasks[t].op = "start" /\ Rejected(tasks[t], "already running")
        /\ isRunningFlag

\* C3: while the supervisor is not running, stop() and sendCommand() fail
\* with 'not running' and change nothing: nothing is written to a process
\* input, no event is emitted, no timer is armed.
C3_NotRunningRejects ==
    [][~isRunningFlag =>
        /\ Called("stop", "operator") =>
              /\ Rejected(tasks'[nTasks'], "not running")
              /\ UNCHANGED <<fields, procs, nProcs, armedRestart, armedKill, events>>
        /\ nCmds' = nCmds + 1 =>
              /\ cmdRet' = "not running"
              /\ UNCHANGED <<fields, tasks, procs, nProcs, armedRestart, armedKill, events>>
      ]_vars

C3_Witness ==
    /\ nProcs >= 1
    /\ cmdRet = "not running"
    /\ \E t \in Tasks : tasks[t].op = "stop" /\ Rejected(tasks[t], "not running")

\* C4 as claimed: restart() called while the supervisor is not running fails
\* with 'not running'.
C4_RestartNotRunningFails ==
    [][~isRunningFlag /\ Called("restart", "operator") =>
          Rejected(tasks'[nTasks'], "not running")]_vars

\* C4 amended: restart() called while the supervisor is not running is
\* accepted, and when the supervisor is still not running as restart's awaited
\* log write completes, it emits 'restarting' and goes on to start(): no
\* stop(), no 'stopping', no stop command, no kill timer.
C4_RestartNotRunningStarts ==
    [][~isRunningFlag =>
        /\ Called("restart", "operator") =>
              tasks'[nTasks'].result = "pending" /\ tasks'[nTasks'].pc = "r_log"
        /\ \A t \in Tasks :
              tasks[t].pc = "r_log" /\ tasks[t].logOk /\ tasks'[t] # tasks[t] =>
                 /\ tasks'[t].pc = "start_jar"
                 /\ tasks'[t].result = "pending"
                 /\ Kinds(events') = Append(Kinds(events), "restarting")
                 /\ UNCHANGED <<fields, procs, armedKill>>
      ]_vars

C4_Witness ==
    \E t \in Tasks :
        /\ tasks[t].op = "restart" /\ tasks[t].result = "resolved"
        /\ Kinds(events) = <<"restarting", "starting", "started">>
        /\ isRunningFlag

\* C5: a stop() does not resolve while the process it waits on is alive.  When
\* it resolves that process has exited, the 'stopped' event of that exit has
\* been emitted and the running flag is false; the step that writes the
\* 'stop' command leaves the promise pending.
HasStopped(evs, p) == \E i \in 1..Len(evs) : evs[i].kind = "stopped" /\ evs[i].pid = p

C5_StopResolvesAfterExit ==
    [][\A t \in Tasks :
        /\ tasks[t].pc = "stop_wait" /\ tasks'[t].pc # "stop_wait" =>
              /\ procs'[tasks[t].pid].st = "exited"
              /\ HasStopped(events', tasks[t].pid)
              /\ ~isRunningFlag'
        /\ tasks[t].pc = "stop_log" /\ tasks'[t] # tasks[t] =>
              \/ tasks'[t].pc = "stop_wait" /\ tasks'[t].result = "pending"
              \/ tasks'[t].result = "rejected"
        /\ tasks'[t].op = "stop" /\ tasks[t].result = "pending"
             /\ tasks'[t].result = "resolved" => tasks[t].pc = "stop_wait"
      ]_vars

C5_Witness ==
    \E t \in Tasks :
        /\ tasks[t].op = "stop" /\ tasks[t].result = "resolved"
        /\ procs[tasks[t].pid].st = "exited"
        /\ Cardinality(LiveProcs) = 1

\* C6: when the grace timer of a stop() fires and the process that stop()
\* waits on has not exited, that process is sent SIGKILL, after the 'stop'
\* command was written to it; and a stop() that passed the running guard
\* resolves: it is never rejected.
C6_GraceKillResolves ==
    [][\A t \in Tasks :
        /\ t \in armedKill /\ t \notin armedKill'
             /\ procs'[tasks[t].pid].st = "alive" =>
              /\ procs'[tasks[t].pid].killed
              /\ \E i \in 1..Len(procs[tasks[t].pid].stdin) :
                    procs[tasks[t].pid].stdin[i] = <<"stop", "\n">>
        /\ tasks[t].op = "stop" /\ tasks[t].pc \in {"stop_log", "stop_wait"} =>
              tasks'[t].result # "rejected"
      ]_vars

\* C7: while an operator's stop() is accepted and pending, the scheduled
\* restart timer does not fire: no restart('Scheduled restart') is called and
\* no 'restarting' event with that reason is emitted.
StopAccepted ==
    \E t \in Tasks :
        /\ tasks[t].op = "stop" /\ tasks[t].origin = "operator"
        /\ tasks[t].pc \in {"stop_log", "stop_wait"}

C7_StopCancelsRestartTimer ==
    [][StopAccepted =>
        /\ ~Called("restart", "timer")
        /\ Len(events') > Len(events) =>
              ~(events'[Len(events')].kind = "restarting"
                /\ events'[Len(events')].text = "Scheduled restart")
      ]_vars

\* C8: when the supervisor is not running and no child process is alive, no
\* kill timer and no scheduled-restart timer is pending.
C8_NoTimerWhenIdle ==
    ~isRunningFlag /\ LiveProcs = {} => armedRestart = {} /\ armedKill = {}

\* C9: every process exit emits one 'stopped' event with the exit's code and
\* signal, followed at once by 'crashed' with the same code and signal exactly
\* when the code is neither 0 nor null; a process that has not exited has no
\* 'stopped' and no 'crashed' event.
ExitEmits(p, code, signal) ==
    IF code = 0 \/ code = NullCode
    THEN <<Ev("stopped", "", code, signal, p)>>
    ELSE <<Ev("stopped", "", code, signal, p), Ev("crashed", "", code, signal, p)>>

ExitEventsOf(p) ==
    LET IsExitEventOf(e) == e.kind \in {"stopped", "crashed"} /\ e.pid = p
    IN SelectSeq(events, IsExitEventOf)

C9_ExitEvents ==
    /\ \A p \in Pids :
          IF procs[p].st = "exited"
          THEN \E c \in ExitCodes, s \in Signals : ExitEventsOf(p) = ExitEmits(p, c, s)
          ELSE ExitEventsOf(p) = << >>
    /\ \A i \in 1..Len(events) :
          events[i].kind = "crashed" =>
             i > 1 /\ events[i - 1] = [events[i] EXCEPT !.kind = "stopped"]

C9_Witness ==
    \E i, j \in 1..Len(events) :
        /\ events[i].kind = "stopped" /\ events[i].code = 1
        /\ events[i + 1].kind = "crashed" /\ events[i + 1].code = 1
        /\ events[j].kind = "stopped" /\ events[j].code = NullCode
        /\ events[j].signal = "SIGKILL"
        /\ (j < Len(events) => events[j + 1].kind # "crashed")

\* C10: a start() whose spawn failed (the child's 'error' event) rejects: it
\* never resolves.
C10_SpawnFailureRejects ==
    \A t \in Tasks :
        tasks[t].op = "start" /\ tasks[t].spawned # 0
          /\ procs[tasks[t].spawned].st = "failed" =>
            /\ tasks[t].result = "rejected"
            /\ ~isRunningFlag
            /\ \E i \in 1..Len(events) :
                  events[i].kind = "error" /\ events[i].pid = tasks[t].spawned


\* ------------------------------------------------------------------ C11..C20
\* The positions in the event history of the events of one kind emitted by
\* call t (any call if t = 0) about process p (any process if p = 0).
EvIdx(kind, t, p) ==
    {i \in 1..Len(events) :
        /\ events[i].kind = kind
        /\ (t = 0 \/ events[i].task = t)
        /\ (p = 0 \/ events[i].pid = p)}

Before(A, B) == \E i \in A : \E j \in B : i < j

\* The restart() call t has stopped process tasks[t].pid, waited its delay,
\* and spawned process tasks[t].spawned, with its events in the order
\* 'restarting', 'stopping', 'stopped', 'starting', 'started'.
StopThenStart(t) ==
    /\ tasks[t].pid # 0
    /\ procs[tasks[t].pid].st = "exited"
    /\ tasks[t].delayed
    /\ tasks[t].pid < tasks[t].spawned
    /\ Before(EvIdx("restarting", t, 0), EvIdx("stopping", t, 0))
    /\ Before(EvIdx("stopping", t, 0), EvIdx("stopped", 0, tasks[t].pid))
    /\ Before(EvIdx("stopped", 0, tasks[t].pid), EvIdx("starting", t, 0))
    /\ Before(EvIdx("starting", t, 0), EvIdx("started", t, tasks[t].spawned))

C12_RestartIdleStartsOnly ==
    [][\A t \in Tasks :
        tasks'[t].op = "restart" /\ ~tasks'[t].ranAtCall =>
            /\ tasks'[t].pc \notin {"stop_log", "stop_wait", "r_delay"}
            /\ tasks'[t].pid = 0 /\ ~tasks'[t].delayed
            /\ tasks[t].result = "pending" /\ tasks'[t].result = "resolved"
                  => isRunningFlag'
      ]_vars

\* The lines of a chunk of output.
RECURSIVE SplitLines(_)
SplitLines(str) ==
    IF str = << >> THEN << >>
    ELSE LET ends == {i \in 1..Len(str) : str[i] = "\n"}
             k == IF ends = {} THEN Len(str) + 1
                  ELSE CHOOSE i \in ends : \A j \in ends : i <= j
         IN <<SubSeq(str, 1, k - 1)>> \o SplitLines(SubSeq(str, k + 1, Len(str)))

IsJoinLine(line) == JoinName(line) # << >>

\* The names of the join lines of each chunk, in order.
JoinLines ==
    [m \in Messages |->
        LET ls == SelectSeq(SplitLines(m), IsJoinLine)
        IN [i \in 1..Len(ls) |-> JoinName(ls[i])]]

\* The events a step appends to the history.
NewEvents == SubSeq(events', Len(events) + 1, Len(events'))

IsPlayerJoin(e) == e.kind = "playerJoin"

\* C13: the delivery of a chunk of standard output raises the player count by
\* one for each join line in it and emits one 'playerJoin' event per join
\* line, carrying that line's name and the count as incremented by it.
C13_JoinPerLine ==
    [][nOut' = nOut + 1 /\ Parsed[lastChunk'].leave = << >> =>
          LET names == JoinLines[lastChunk']
              joins == SelectSeq(NewEvents, IsPlayerJoin)
          IN /\ playerCount' = playerCount + Len(names)
             /\ Len(joins) = Len(names)
             /\ \A i \in 1..Len(names) :
                    joins[i].name = names[i] /\ joins[i].count = playerCount + i
      ]_vars

IsPlayerEvent(e) == e.kind \in {"playerJoin", "playerLeave"}

\* The 'playerJoin' and 'playerLeave' events emitted so far; each carries the
\* player count as its detection left it.
PlayerEvents == SelectSeq(events, IsPlayerEvent)

DoneOccurrences ==
    [m \in Messages |-> Cardinality({k \in 1..Len(m) : LiteralAt(m, k, DoneText)})]

IsReadyEvent(e) == e.kind = "ready"

\* C15: the delivery of a chunk of standard output emits one 'ready' event
\* for each occurrence of the ready phrase in it, with no payload, and these
\* events change neither the player count nor the running flag.
C15_ReadyPerOccurrence ==
    [][nOut' = nOut + 1 =>
          LET readies == SelectSeq(NewEvents, IsReadyEvent) IN
          /\ Len(readies) = DoneOccurrences[lastChunk']
          /\ \A i \in 1..Len(readies) :
                readies[i].text = "" /\ readies[i].name = << >> /\ readies[i].count = 0
          /\ isRunningFlag' = isRunningFlag
          /\ Len(readies) = Len(NewEvents) => playerCount' = playerCount
      ]_vars

\* C16: a cleanup() called after a cleanup() has completed does not fail and
\* calls no close on the log file handle, which is closed once in total; when
\* the stop() awaited by a cleanup() has resolved the supervisor is not
\* running.
C16_CleanupIdempotent ==
    [][/\ /\ Called("cleanup", "operator")
          /\ \E t \in Tasks : tasks[t].op = "cleanup" /\ tasks[t].result = "resolved"
          =>
             /\ tasks'[nTasks'].result # "rejected"
             /\ CloseCallers' = CloseCallers
       /\ \A t \in Tasks :
             tasks[t].op = "cleanup" /\ tasks[t].pc = "stop_wait"
                 /\ tasks'[t].pc = "cl_close" => ~isRunningFlag'
      ]_vars

\* C17: whenever the supervisor is not running, getStatus() reports uptime
\* 0, whatever the clock reads.
C17_IdleUptimeZero ==
    ~isRunningFlag => \A now \in ClockReadings : GetStatus(now).uptime = 0

\* The error of a start() that finds a required file missing: it names the
\* server jar if that is missing, else the assets file.
MissingError == IF ~jarPresent THEN "jar not found" ELSE "assets not found"

\* C18: while the server jar or the assets file is missing, every start()
\* that has ended has failed with the error naming the missing file, and
\* nothing else has happened: no process spawned, no handle, no 'starting'
\* or 'started' event, no timer armed, no scheduled call, not running.
C18_MissingResourceFailsFast ==
    ~jarPresent \/ ~assetsPresent =>
        /\ nProcs = 0 /\ process = 0 /\ ~isRunningFlag /\ startTime = 0
        /\ restartTimer = 0 /\ armedRestart = {} /\ armedKill = {}
        /\ EvIdx("starting", 0, 0) = {} /\ EvIdx("started", 0, 0) = {}
        /\ \A t \in Tasks :
              /\ tasks[t].spawned = 0 /\ tasks[t].origin # "timer"
              /\ tasks[t].pc # "start_log"
              /\ tasks[t].op = "start" /\ tasks[t].result # "pending"
                    => Rejected(tasks[t], MissingError)
              /\ tasks[t].op = "restart" /\ tasks[t].result # "pending"
                    => Rejected(tasks[t], MissingError) \/ Rejected(tasks[t], "EBADF")

C18_Witness ==
    /\ jarPresent /\ ~assetsPresent
    /\ \E t \in Tasks : tasks[t].op = "start" /\ Rejected(tasks[t], "assets not found")
    /\ \E t \in Tasks : tasks[t].op = "restart" /\ Rejected(tasks[t], "assets not found")

\* C19: whenever the supervisor is not running it holds no process handle.
C19_IdleHoldsNoHandle == ~isRunningFlag => process = 0

\* The processes that exited while a stop() was waiting for their exit.
ExitedOnStop ==
    {p \in Pids : procs[p].st = "exited" /\ \E t \in Tasks : tasks[t].pid = p}

\* C20 as claimed: the exit of a process that a stop() was waiting on emits
\* 'stopped' and never 'crashed', whatever its exit code.
C20_NoCrashedOnStop ==
    \A p \in ExitedOnStop :
        EvIdx("stopped", 0, p) # {} /\ EvIdx("crashed", 0, p) = {}

\* C20 amended: the exit of a process that a stop() was waiting on ends that
\* wait and emits 'stopped' once; it emits 'crashed' as well, right after
\* 'stopped', exactly when the exit code is neither 0 nor null.
C20_CrashedByCodeOnStop ==
    \A p \in ExitedOnStop :
        /\ \A t \in Tasks : tasks[t].pid = p => tasks[t].pc # "stop_wait"
        /\ Cardinality(EvIdx("stopped", 0, p)) = 1
        /\ \A i \in EvIdx("stopped", 0, p) :
              IF events[i].code \in {0, NullCode}
              THEN EvIdx("crashed", 0, p) = {}
              ELSE EvIdx("crashed", 0, p) = {i + 1}

C20_Witness ==
    \E t \in Tasks :
        /\ tasks[t].op = "stop" /\ tasks[t].result = "resolved" /\ tasks[t].pid = 1
        /\ Kinds(events) = <<"starting", "started", "stopping", "stopped", "crashed">>
        /\ ~isRunningFlag

\* ------------------------------------------------------------------ C21..C30
\* C21: the kill timer's callback emits no event and settles no call; the
\* exit of the process it killed emits one 'stopped' event with a null code
\* and the kill signal and no 'crashed', and resolves the stop() calls that
\* wait on that process, as any exit does.
C21_ForcedKillExitsNormally ==
    [][/\ (\E p \in Pids : ~procs[p].killed /\ procs'[p].killed)
             => events' = events /\ tasks' = tasks /\ UNCHANGED fields
       /\ \A p \in Pids :
             procs[p].killed /\ procs[p].st = "alive" /\ procs'[p].st = "exited" =>
                /\ NewEvents = <<Ev("stopped", "", NullCode, "SIGKILL", p)>>
                /\ \A t \in Tasks :
                      tasks[t].pc = "stop_wait" /\ tasks[t].pid = p /\ tasks[t].op = "stop"
                          => tasks'[t].result = "resolved"
      ]_vars

C21_Witness ==
    \E t \in Tasks :
        /\ tasks[t].op = "stop" /\ tasks[t].result = "resolved"
        /\ procs[tasks[t].pid].killed /\ procs[tasks[t].pid].st = "exited"
        /\ Kinds(events) = <<"starting", "started", "stopping", "stopped">>
        /\ events[4].code = NullCode /\ events[4].signal = "SIGKILL"

\* The start() calls that have passed the guard and not yet spawned.
StartsInFlight == {t \in Tasks : tasks[t].pc \in {"start_jar", "start_assets", "start_log"}}

\* C22: a stop() called while a start() is in flight fails with 'not
\* running' and changes nothing (no 'stopping', no kill timer, the start
\* untouched), and a start() in flight, the files being present, ends
\* resolved with the supervisor running.
C22_StopDuringStart ==
    [][/\ StartsInFlight # {} /\ Called("stop", "operator") =>
             /\ Rejected(tasks'[nTasks'], "not running")
             /\ \A t \in StartsInFlight : tasks'[t] = tasks[t]
             /\ UNCHANGED <<fields, procs, nProcs, armedRestart, armedKill, events>>
       /\ \A t \in StartsInFlight :
             /\ tasks[t].pc = "start_log" /\ tasks[t].logOk /\ tasks'[t].pc = "done"
             /\ \E u \in Tasks : tasks[u].op = "stop" /\ Rejected(tasks[u], "not running")
             => tasks'[t].result = "resolved" /\ isRunningFlag'
      ]_vars

\* The positions in evs of the events of one kind about process p (any
\* process if p = 0).
KindIdx(evs, kind, p) ==
    {i \in 1..Len(evs) : evs[i].kind = kind /\ (p = 0 \/ evs[i].pid = p)}

\* C23: the step of start() that spawns a process that runs marks the
\* supervisor running, records the start time, emits 'starting' then
\* 'started' and resolves the call, before any 'ready'; a 'ready' event of a
\* process never precedes its 'started' event, and the delivery of output
\* leaves the running flag as it is.
C23_RunningAtSpawn ==
    [][/\ \A t \in Tasks :
             tasks[t].spawned = 0 /\ tasks'[t].spawned # 0
                 /\ procs'[tasks'[t].spawned].st = "alive" =>
                /\ isRunningFlag' /\ startTime' # 0 /\ process' = tasks'[t].spawned
                /\ Kinds(NewEvents) = <<"starting", "started">>
                /\ tasks'[t].result = "resolved"
                /\ KindIdx(events', "ready", tasks'[t].spawned) = {}
       /\ \A i \in KindIdx(events', "ready", 0) :
             \E j \in 1..(i - 1) :
                events'[j].kind = "started" /\ events'[j].pid = events'[i].pid
       /\ nOut' = nOut + 1 => isRunningFlag' = isRunningFlag
      ]_vars

C23_Witness ==
    /\ Kinds(events) = <<"starting", "started", "ready">>
    /\ isRunningFlag /\ startTime # 0

\* There has been no operator action but the first start().
NoOperatorAction ==
    /\ nCmds = 0
    /\ \A t \in Tasks :
          tasks[t].op # "none" =>
             IF t = 1 THEN tasks[t].op = "start" ELSE tasks[t].origin = "timer"

\* C24: with auto-restart configured, the files present and no operator
\* action, a restart made by the scheduled-restart timer never fails: it goes
\* on to stop the old process and start a new one.
C24_ScheduledRestartGoesOn ==
    autoRestart /\ jarPresent /\ assetsPresent /\ NoOperatorAction =>
        \A t \in Tasks : tasks[t].origin = "timer" => tasks[t].result # "rejected"

\* C28: a sendCommand(text) made while the supervisor is running returns at
\* once and appends text and one line terminator to what has been written to
\* the input of the current process, after everything written before; it
\* leaves the fields, the calls in progress, the timers and the events as
\* they are, also while a stop() is pending.
C28_CommandWritten ==
    [][isRunningFlag /\ nCmds' = nCmds + 1 =>
          /\ cmdRet' = "ok"
          /\ \E text \in CommandTexts :
                procs' = [procs EXCEPT ![process].stdin = Append(@, <<text, "\n">>)]
          /\ UNCHANGED <<fields, tasks, nTasks, nProcs, armedRestart, armedKill, events>>
      ]_vars

\* A command accepted while a stop() is pending, written after 'stop'.
C28_Witness ==
    /\ cmdRet = "ok" /\ isRunningFlag
    /\ \E t \in Tasks : tasks[t].op = "stop" /\ tasks[t].pc = "stop_wait"
    /\ procs[process].stdin = << <<"stop", "\n">>, <<"say hi", "\n">> >>

\* C29: the player count changes only in the delivery of an output chunk in
\* which a join or a leave is detected; start(), stop(), restart(),
\* sendCommand(), cleanup() and the exit of a process leave it as it is.
C29_CountFrame ==
    [][playerCount' # playerCount =>
          /\ nOut' = nOut + 1
          /\ Parsed[lastChunk'].join # << >> \/ Parsed[lastChunk'].leave # << >>
      ]_vars

\* A count of 1 that a restart, with the exit of the old process, has kept.
C29_Witness ==
    /\ playerCount = 1
    /\ \E t \in Tasks :
          /\ tasks[t].op = "restart" /\ tasks[t].result = "resolved"
          /\ tasks[t].pid = 1 /\ tasks[t].spawned = 2
    /\ EvIdx("playerJoin", 0, 1) # {} /\ EvIdx("playerJoin", 0, 2) = {}

\* C30: when an initialize() made after construction completes, no output
\* having been delivered since it was called, the player count is 0.
C30_InitializeResetsCount ==
    [][\A t \in Tasks :
          /\ tasks[t].pc = "init_open" /\ tasks'[t].result = "resolved"
          /\ tasks[t].outAtCall = nOut
          => playerCount' = 0
      ]_vars

IsErrorLine(line) == line # << >> /\ ~Includes(ToLowerCase(line), WarningText)

\* The lines of each error-stream chunk that do not contain 'warning'.
ErrorLines == [m \in ErrMessages |-> SelectSeq(SplitLines(m), IsErrorLine)]

IsErrorEvent(e) == e.kind = "error"

\* C26: with a subscriber to 'error' registered, the delivery of an
\* error-stream chunk emits one 'error' event for each of its lines that
\* does not contain 'warning', carrying the text of that line, and none for
\* a line that contains it; the running flag, the player count, the timers
\* and the processes stay as they are.
C26_StderrPerLine ==
    [][nErr' = nErr + 1 /\ errorListener =>
          LET ls == ErrorLines[lastErr']
              errs == SelectSeq(NewEvents, IsErrorEvent)
          IN /\ Len(errs) = Len(ls) /\ Len(NewEvents) = Len(errs)
             /\ \A i \in 1..Len(ls) : errs[i].raw \in {ls[i], ls[i] \o <<"\n">>}
             /\ UNCHANGED <<fields, procs, armedRestart, armedKill, tasks>>
      ]_vars

\* C27: the delivery of an error-stream chunk leaves no exception uncaught,
\* whether or not a subscriber to 'error' is registered.
C27_StderrNeverThrows == [][nErr' = nErr + 1 => ~uncaught']_vars

\* C25: the records of the log file are in the order in which log() was
\* called, each written whole.
C25_LogInCallOrder ==
    \A i, j \in 1..Len(logFile) : i < j => logFile[i] < logFile[j]

\* ------------------------------------------------------------------ claims C31..C38
\* C31: the delivery of a chunk of standard output while the supervisor is
\* not running (the exit of the chunk's process has been handled) emits no
\* event and leaves the player count as it is.
C31_ParsedOnlyWhileRunning ==
    [][nOut' = nOut + 1 /\ ~isRunningFlag =>
          NewEvents = << >> /\ playerCount' = playerCount]_vars

\* A step in which the bot handles a chat command.
HandlesCommand == interaction'.seq = interaction.seq + 1

\* C32: with an admin role configured, the handling of a command of a member
\* who does not hold it (or whose roles are absent) calls nothing on the
\* supervisor, defers no handler and leaves the supervisor as it is; with
\* none configured, every command reaches its handler; and every call the
\* bot makes on the supervisor is for a command of a member who holds the
\* role, or is made with no role configured.
C32_AdminRoleGates ==
    [][/\ HandlesCommand /\ adminRoleId # "" /\ ~interaction'.holds =>
             /\ interaction'.outcome \in {"unverified", "refused"}
             /\ interaction'.invoked = "none"
             /\ deferred' = deferred
             /\ UNCHANGED server
       /\ HandlesCommand /\ adminRoleId = "" => interaction'.outcome = "dispatched"
       /\ nCmds' # nCmds => HandlesCommand /\ (adminRoleId = "" \/ interaction'.holds)
       /\ nTasks' # nTasks =>
             \E d \in deferred \ deferred' : adminRoleId = "" \/ d.holds
      ]_vars

\* With an admin role configured and the server running (an admin's
\* /server-on started it), a command of a member without the role has been
\* refused.
C32_Witness ==
    /\ adminRoleId = AdminRole
    /\ isRunningFlag /\ LiveProcs # {}
    /\ interaction.outcome = "refused" /\ ~interaction.holds
    /\ nTasks = 1 /\ nCmds = 0 /\ deferred = {}

\* C33: at most one grace-period kill timer is armed at any time.
C33_OneKillTimer == Cardinality(armedKill) <= 1

\* C34: the running flag is true exactly when the most recently spawned
\* process is alive.
C34_FlagIsNewestAlive ==
    isRunningFlag <=> (nProcs > 0 /\ procs[nProcs].st = "alive")

\* A start() that has failed: its promise has rejected, or the child it
\* spawned has reported that it could not be executed, on which the error
\* handler calls reject.
FailedStart(t) ==
    /\ tasks[t].op = "start"
    /\ \/ tasks[t].result = "rejected"
       \/ tasks[t].spawned # 0 /\ procs[tasks[t].spawned].st = "failed"

\* C35: a start() that has failed (missing resource, stream unavailable,
\* spawn failure, already running) has left no live process of its own and
\* no restart timer of its own: either it spawned nothing, or what it
\* spawned is not alive and has no timer armed (in a supervising program
\* that no uncaught exception has ended).
C35_FailedStartLeavesNothing ==
    \A t \in Tasks :
        FailedStart(t) /\ ~uncaught =>
           \/ tasks[t].spawned = 0
           \/ /\ procs[tasks[t].spawned].st # "alive"
              /\ tasks[t].spawned \notin armedRestart

IsStopping(e) == e.kind = "stopping"

\* C36: a step that emits 'stopping' is taken while the supervisor is running
\* and its process is alive.
C36_StoppingOnlyWhileLive ==
    [][SelectSeq(NewEvents, IsStopping) # << >> =>
          isRunningFlag /\ process # 0 /\ procs[process].st = "alive"]_vars

\* The positions of the events of a kind.
Positions(kind) == {i \in 1..Len(events) : events[i].kind = kind}

\* C37: between two consecutive 'started' events there is exactly one
\* 'stopped' event, and every 'stopped' and 'crashed' event closes a
\* 'started' event that no earlier 'stopped' has closed.
C37_LifecycleAlternates ==
    /\ \A i, j \in Positions("started") :
          i < j /\ (\A k \in Positions("started") : ~(i < k /\ k < j)) =>
             Cardinality({k \in Positions("stopped") : i < k /\ k < j}) = 1
    /\ \A k \in Positions("stopped") \cup Positions("crashed") :
          \E i \in Positions("started") :
             /\ i < k
             /\ Cardinality({m \in Positions("stopped") : i < m /\ m <= k}) = 1


\* The events that announce a stop, a restart or a start.
IsCycleEvent(e) == e.kind \in {"stopping", "restarting", "starting"}

\* C38: when auto-restart is not configured, no restart timer is armed, no
\* call is made by a timer, and every 'stopping', 'restarting' and 'starting'
\* event is emitted by an operator's call or by the start or stop that an
\* operator's restart() makes.
C38_NoAutonomousCycle ==
    ~autoRestart =>
        /\ armedRestart = {} /\ restartTimer = 0
        /\ \A t \in 1..nTasks : tasks[t].origin # "timer"
        /\ \A i \in 1..Len(events) :
              IsCycleEvent(events[i]) =>
                 /\ events[i].task \in 1..nTasks
                 /\ tasks[events[i].task].origin = "operator"

\* Without auto-restart, an operator's restart() has stopped one process and
\* started the next.
C38_Witness ==
    /\ ~autoRestart
    /\ \E t \in Tasks :
          /\ tasks[t].op = "restart" /\ tasks[t].result = "resolved"
          /\ tasks[t].spawned = 2
    /\ Kinds(SelectSeq(events, IsCycleEvent)) = <<"starting", "restarting", "stopping", "starting">>
====
